---- MODULE Spec2Model ----
(***************************************************************************)
(* A model of the parking-lot allocation engine of src/src/lib.rs: the     *)
(* lot / floor / spot hierarchy, the ticket table, the two process-wide     *)
(* counters and the three mutexes (floor table, per-floor spot table,       *)
(* ticket table).                                                           *)
(*                                                                          *)
(* Strings built with format! are modelled as pairs <<prefix, n>>:          *)
(* "spot_7" is <<"spot_", 7>> and "TKT_3" is <<"TKT_", 3>>.  Option values  *)
(* are sequences: None is <<>> and Some(x) is <<x>>.  Time is counted in    *)
(* minutes.                                                                 *)
(***************************************************************************)
EXTENDS Integers, Sequences, FiniteSets, TLC

VARIABLES
    floors,          \* ParkingLot.floors: floor id -> ParkingFloor [id, spots (an Arc address)]
    floorsOrder,     \* iteration order of the floors HashMap (an insert of a new id places it anywhere)
    arcs,            \* the Arc<Mutex<HashMap<String, ParkingSpot>>> allocations: address -> [map, before]
    active_tickets,  \* ParkingLot.active_tickets: ticket id -> ParkingTicket
    ticketCounter,   \* COUNTER of generate_ticket_id
    spotCounter,     \* COUNTER of ParkingSpot::new
    clock,           \* the value Utc::now() returned last, in minutes
    ret,             \* the last call that returned: [op, arg, ok, err, val]
    pc,              \* per thread: the place in park_vehicle / unpark_vehicle it stands at
    local,           \* per thread: the call's arguments and local variables
    floorsLock,      \* holder of the floor-table mutex (0: free)
    ticketsLock,     \* holder of the ticket-table mutex (0: free)
    spotsLock,       \* per Arc address: holder of that spot table's mutex (0: free)
    spot,            \* a ParkingSpot owned by the caller, outside any floor
    floor1           \* the caller's Option<ParkingFloor> from get_floor_by_id (a clone sharing the Arc)

vars == <<floors, floorsOrder, arcs, active_tickets, ticketCounter, spotCounter,
          clock, ret, pc, local, floorsLock, ticketsLock, spotsLock, spot, floor1>>

lotVars == <<floors, floorsOrder, arcs, active_tickets, ticketCounter, spotCounter>>
threadVars == <<pc, local, floorsLock, ticketsLock, spotsLock>>

(***************************************************************************)
(* Bounds of the model and constants of the program.                        *)
(***************************************************************************)
MaxFloors == 2
MaxTickets == 2
MaxParks == 1
MaxFill == 2
MaxSpots == 2
NumThreads == 2
DefaultSpots == 10
Rate == 10
MinutesPerHour == 60

\* The instants Utc::now() returns (wall-clock time: a reading can be earlier than
\* the one before).
Times == {0, 60}

(***************************************************************************)
(* Data.                                                                    *)
(***************************************************************************)
SpotType == {"Large", "Regular", "XLarge", "Handicapped"}
VehicleType == {"Motor", "Truck", "Bike"}
PaymentStatus == {"Succeeded", "Failed", "Pending"}

None == <<>>
Some(x) == <<x>>

SpotId(n) == <<"spot_", n>>
TicketId(n) == <<"TKT_", n>>

ErrNoAvailableSpot == "No available spots"
ErrAlreadyOccupied == "Spot is already occupied"
ErrIncompatible == "Vehicle type not compatible with spot type"
ErrInvalidTicket == "Invalid ticket ID"

Vehicle(t, m, p) == [vehicle_type |-> t, model |-> m, license_plate |-> p]
vehicle1 == Vehicle("Motor", "Toyota", "ABC123")
vehicle2 == Vehicle("Truck", "Mac", "XYZ789")
vehicle3 == Vehicle("Bike", "Suzuki", "DEF456")
Vehicles == {vehicle1, vehicle2, vehicle3}

Min(S) == CHOOSE x \in S : \A y \in S : x <= y

(***************************************************************************)
(* ParkingSpot.                                                             *)
(***************************************************************************)
\* ParkingSpot::new with the counter value n that fetch_add returned.
ParkingSpotNew(n, is_free, spot_type) ==
    [id |-> SpotId(n), is_free |-> is_free, spot_type |-> spot_type, vehicle |-> None]

IsCompatible(s, vehicle_type) ==
    CASE vehicle_type = "Motor" /\ s.spot_type = "Regular" -> TRUE
      [] vehicle_type = "Motor" /\ s.spot_type = "Large" -> TRUE
      [] vehicle_type = "Motor" /\ s.spot_type = "XLarge" -> TRUE
      [] vehicle_type = "Bike" /\ s.spot_type = "Regular" -> TRUE
      [] vehicle_type = "Truck" /\ s.spot_type = "Large" -> TRUE
      [] vehicle_type = "Truck" /\ s.spot_type = "XLarge" -> TRUE
      [] vehicle_type = "Motor" /\ s.spot_type = "Handicapped" -> FALSE
      [] vehicle_type = "Truck" /\ s.spot_type = "Regular" -> FALSE
      [] vehicle_type = "Truck" /\ s.spot_type = "Handicapped" -> FALSE
      [] vehicle_type = "Bike" /\ s.spot_type = "Large" -> TRUE
      [] vehicle_type = "Bike" /\ s.spot_type = "XLarge" -> TRUE
      [] vehicle_type = "Bike" /\ s.spot_type = "Handicapped" -> FALSE

\* assign_vehicle without its compatibility check.
AssignVehicleNoCheck(s, vehicle) ==
    IF ~s.is_free
    THEN [ok |-> FALSE, err |-> ErrAlreadyOccupied, spot |-> s]
    ELSE [ok |-> TRUE, err |-> "",
          spot |-> [s EXCEPT !.vehicle = Some(vehicle), !.is_free = FALSE]]

\* assign_vehicle without its occupancy check.
AssignVehicleOverwrites(s, vehicle) ==
    IF ~IsCompatible(s, vehicle.vehicle_type)
    THEN [ok |-> FALSE, err |-> ErrIncompatible, spot |-> s]
    ELSE [ok |-> TRUE, err |-> "",
          spot |-> [s EXCEPT !.vehicle = Some(vehicle), !.is_free = FALSE]]

\* assign_vehicle: the result and the spot as the call leaves it.
AssignVehicle(s, vehicle) ==
    IF ~s.is_free
    THEN [ok |-> FALSE, err |-> ErrAlreadyOccupied, spot |-> s]
    ELSE IF ~IsCompatible(s, vehicle.vehicle_type)
    THEN [ok |-> FALSE, err |-> ErrIncompatible, spot |-> s]
    ELSE [ok |-> TRUE, err |-> "",
          spot |-> [s EXCEPT !.vehicle = Some(vehicle), !.is_free = FALSE]]

\* A vacate that flips the flag instead of setting it.
RemoveVehicleFlipsFlag(s) == [s EXCEPT !.is_free = ~s.is_free, !.vehicle = None]

\* remove_vehicle.
RemoveVehicle(s) == [s EXCEPT !.vehicle = None, !.is_free = TRUE]

(***************************************************************************)
(* ParkingFloor.  A spot table is [map, before]: the HashMap, and what is   *)
(* determined of the order in which iterating it yields its keys.  That     *)
(* order is the hasher's (RandomState): any permutation of the keys, fixed  *)
(* while no key is inserted.  A table starts with nothing determined; a     *)
(* scan that comes upon key h first among the keys it looks for determines  *)
(* that h iterates before each of them.  `before` is the set of pairs       *)
(* <<a, b>> so determined (a iterates before b), closed under transitivity: *)
(* the table's order is any permutation that agrees with every pair.        *)
(***************************************************************************)
\* The keys known to iterate no later than h, and no earlier than e.
UpTo(before, h) == {h} \cup {p[1] : p \in {q \in before : q[2] = h}}
From(before, e) == {e} \cup {p[2] : p \in {q \in before : q[1] = e}}

\* The keys of E an iteration can yield before every other key of E.
Firsts(before, E) == {h \in E : \A e \in E : <<e, h>> \notin before}

\* What is determined once an iteration has yielded h before every other key of E.
Observe(before, h, E) ==
    before \cup (UpTo(before, h) \X UNION {From(before, e) : e \in E \ {h}})

\* HashMap::insert.
Insert(map, k, v) == [x \in DOMAIN map \cup {k} |-> IF x = k THEN v ELSE map[x]]

\* initialize_spots, the spot counter standing at c: keys spot_0 .. spot_9.
InitializeSpots(c) ==
    [k \in {SpotId(i) : i \in 0..(DefaultSpots - 1)} |->
        ParkingSpotNew(c + k[2], TRUE, "Regular")]

\* add_spot on a HashMap.
AddSpot(map, s) == Insert(map, s.id, s)

RECURSIVE AddSpots(_, _)
AddSpots(map, ss) ==
    IF ss = <<>> THEN map ELSE AddSpots(AddSpot(map, Head(ss)), Tail(ss))

\* find_available_spot without its compatibility test: the first free spot.
FindAvailableSpotAnyFree(floor, a, vehicle_type) ==
    LET t == a[floor.spots]
        hits == {k \in DOMAIN t.map : t.map[k].is_free}
    IN  IF hits = {} THEN {None}
        ELSE {Some(<<floor.id, k>>) : k \in Firsts(t.before, hits)}

\* The keys of the spots find_available_spot looks for: free and compatible.
Eligible(t, vehicle_type) ==
    {k \in DOMAIN t.map : t.map[k].is_free /\ IsCompatible(t.map[k], vehicle_type)}

\* find_available_spot: the first free, compatible spot in iteration order.  The set
\* of the values the call can return, given what is determined of the order.
FindAvailableSpot(floor, a, vehicle_type) ==
    LET t == a[floor.spots]
        hits == Eligible(t, vehicle_type)
    IN  IF hits = {} THEN {None}
        ELSE {Some(<<floor.id, k>>) : k \in Firsts(t.before, hits)}

(***************************************************************************)
(* ParkingLot.                                                              *)
(***************************************************************************)
\* The scan asking only the first floor.
ScanFirstFloorOnly(fl, ord, a, vehicle_type) ==
    IF ord = <<>> THEN {None} ELSE FindAvailableSpot(fl[ord[1]], a, vehicle_type)

\* park_vehicle's scan: find_map over floors.values().  The set of the values the
\* scan can return.
ScanFloors(fl, ord, a, vehicle_type) ==
    LET hits == {i \in 1..Len(ord) : FindAvailableSpot(fl[ord[i]], a, vehicle_type) # {None}}
    IN  IF hits = {} THEN {None} ELSE FindAvailableSpot(fl[ord[Min(hits)]], a, vehicle_type)

\* The spot tables once the scan has returned available_spot: the order of the table
\* it found the spot in is determined that far.
Scanned(fl, a, vehicle_type, available_spot) ==
    IF available_spot = None THEN a
    ELSE LET x == fl[available_spot[1][1]].spots
         IN  [a EXCEPT ![x].before =
                  Observe(@, available_spot[1][2], Eligible(a[x], vehicle_type))]

\* ParkingTicket::new at time now.
ParkingTicketNew(ticket_id, vehicle, spot_id, now) ==
    [ticket_id |-> ticket_id, vehicle |-> vehicle, spot_id |-> spot_id,
     entry_time |-> now, exit_time |-> None, payment_status |-> "Pending"]

\* unpark_vehicle's loop: the first floor, in iteration order, that holds the key.
VacateSpot(fl, ord, a, spot_id) ==
    LET hits == {i \in 1..Len(ord) : spot_id \in DOMAIN a[fl[ord[i]].spots].map}
    IN  IF hits = {} THEN a
        ELSE LET x == fl[ord[Min(hits)]].spots
             IN  [a EXCEPT ![x].map[spot_id] = RemoveVehicle(@)]

\* A charge whose hours are rounded down, not toward zero.
ChargeRoundsDown(entry_time, now) ==
    [total |-> ((now - entry_time) \div MinutesPerHour) * Rate, chargeback |-> 0]

\* Lines 169-172 and 191-194: num_hours of the stay times the rate; num_hours truncates toward zero, also for a release
\* instant earlier than the entry instant (the wall clock set back in between).
Charge(entry_time, now) ==
    LET duration == now - entry_time
        hours == IF duration >= 0 THEN duration \div MinutesPerHour
                 ELSE -((-duration) \div MinutesPerHour)
    IN  [total |-> hours * Rate, chargeback |-> 0]

\* The ticket as unpark_vehicle re-inserts it.
CloseTicket(ticket, now) ==
    [ticket EXCEPT !.exit_time = Some(now), !.payment_status = "Succeeded"]

Remove(map, k) == [x \in DOMAIN map \ {k} |-> map[x]]

\* A floor count that counts every floor ever added.
NumFloorsAdded == Len(arcs)

\* display_info.
NumFloors == Cardinality(DOMAIN floors)
NumEmptySpots(fl, a) ==
    LET RECURSIVE Sum(_)
        Sum(S) == IF S = {} THEN 0
                  ELSE LET f == CHOOSE f \in S : TRUE
                       IN  Cardinality(DOMAIN a[fl[f].spots].map) + Sum(S \ {f})
    IN  Sum(DOMAIN fl)
NumParkedVehicles(fl, a) ==
    LET RECURSIVE Sum(_)
        Sum(S) == IF S = {} THEN 0
                  ELSE LET f == CHOOSE f \in S : TRUE
                           m == a[fl[f].spots].map
                       IN  Cardinality({k \in DOMAIN m : ~m[k].is_free}) + Sum(S \ {f})
    IN  Sum(DOMAIN fl)

(***************************************************************************)
(* Construction.  A lot is built as main does: Floor::new(i) and add_floor  *)
(* for i = 1..nf, then add_spot on the handle of floor 1.  The spots `pre`  *)
(* are created before the floors (so they carry spot_0, spot_1, ...) and    *)
(* the spots `extra` after them.                                            *)
(***************************************************************************)
SpotArgs(is_free, spot_type) == [is_free |-> is_free, spot_type |-> spot_type]

Copies(k, x) == [i \in 1..k |-> x]

NewSpots(c, args) == [i \in 1..Len(args) |-> ParkingSpotNew(c + i - 1, args[i].is_free, args[i].spot_type)]

BuiltMap(i, nf, pre, extra) ==
    LET base == InitializeSpots(Len(pre) + DefaultSpots * (i - 1))
    IN  IF i = 1
        THEN AddSpots(AddSpots(base, NewSpots(0, pre)),
                      NewSpots(Len(pre) + DefaultSpots * nf, extra))
        ELSE base

\* Iteration orders of the floors HashMap holding floors 1..nf: every permutation.
FloorOrders(nf) == {f \in [1..nf -> 1..nf] : \A i, j \in 1..nf : i # j => f[i] # f[j]}

PreChoices ==
    {<<>>} \cup {Copies(k, SpotArgs(FALSE, "Regular")) : k \in {DefaultSpots - 1, DefaultSpots}}
           \cup {Copies(DefaultSpots, SpotArgs(TRUE, "Handicapped"))}
ExtraChoices == {<<>>, <<SpotArgs(TRUE, "Large")>>}

\* What a call that returned is known by: its name, argument and result, and, for a
\* park_vehicle that succeeded, the floor and key of the spot it occupied (at).
Return(op, arg, ok, err, val, at) ==
    [op |-> op, arg |-> arg, ok |-> ok, err |-> err, val |-> val, at |-> at]

Threads == 1..NumThreads

InitThreads ==
    /\ pc = [t \in Threads |-> "idle"]
    /\ local = [t \in Threads |-> <<>>]
    /\ floorsLock = 0
    /\ ticketsLock = 0
    /\ spotsLock = [x \in DOMAIN arcs |-> 0]

InitLot(nfs, pres, extras) ==
    \E nf \in nfs, pre \in pres, extra \in extras :
      \E fo \in FloorOrders(nf) :
        /\ floors = [i \in 1..nf |-> [id |-> i, spots |-> i]]
        /\ floorsOrder = fo
        /\ arcs = [i \in 1..nf |->
                     [map |-> BuiltMap(i, nf, pre, extra), before |-> {}]]
        /\ spotCounter = Len(pre) + DefaultSpots * nf + Len(extra)
        /\ active_tickets = <<>>
        /\ ticketCounter = 0
        /\ clock = 0
        /\ ret = Return("none", <<>>, TRUE, "", <<>>, <<>>)
        /\ spot = <<>>
        /\ floor1 = None

(***************************************************************************)
(* Calls that run alone, from call to return.                               *)
(***************************************************************************)
\* A ticket id made of the number of tickets on record.
GenerateTicketIdFromLen == TicketId(Cardinality(DOMAIN active_tickets))

\* generate_ticket_id: the id made of the value fetch_add returns (the counter is then one more).
GenerateTicketId == TicketId(ticketCounter)

ParkVehicle(vehicle, cap, times) ==
    /\ ticketCounter < cap \/ ScanFloors(floors, floorsOrder, arcs, vehicle.vehicle_type) = {None}
    /\ \E now \in times :
        /\ clock' = now
        /\ \E available_spot \in ScanFloors(floors, floorsOrder, arcs, vehicle.vehicle_type) :
               IF available_spot = None
               THEN /\ ret' = Return("park_vehicle", vehicle, FALSE, ErrNoAvailableSpot, <<>>, <<>>)
                    /\ UNCHANGED lotVars
               ELSE LET floor_number == available_spot[1][1]
                        spot_id == available_spot[1][2]
                        x == floors[floor_number].spots
                        scanned == Scanned(floors, arcs, vehicle.vehicle_type, available_spot)
                        r == AssignVehicle(scanned[x].map[spot_id], vehicle)
                    IN  IF ~r.ok
                        THEN /\ ret' = Return("park_vehicle", vehicle, FALSE, r.err, <<>>, <<>>)
                             /\ arcs' = scanned
                             /\ UNCHANGED <<floors, floorsOrder, active_tickets, ticketCounter, spotCounter>>
                        ELSE LET ticket == ParkingTicketNew(GenerateTicketId, vehicle, spot_id, now)
                             IN  /\ arcs' = [scanned EXCEPT ![x].map[spot_id] = r.spot]
                                 /\ ticketCounter' = ticketCounter + 1
                                 /\ active_tickets' = Insert(active_tickets, ticket.ticket_id, ticket)
                                 /\ ret' = Return("park_vehicle", vehicle, TRUE, "", ticket, <<floor_number, spot_id>>)
                                 /\ UNCHANGED <<floors, floorsOrder, spotCounter>>
    /\ UNCHANGED <<threadVars, spot, floor1>>

\* unpark_vehicle putting an entry under an id it did not find.
UnparkVehicleOrInsert(ticket_id, times) ==
    /\ \E now \in times :
        /\ clock' = now
        /\ IF ticket_id \notin DOMAIN active_tickets
           THEN /\ ret' = Return("unpark_vehicle", ticket_id, FALSE, ErrInvalidTicket, <<>>, <<>>)
                /\ active_tickets' = Insert(active_tickets, ticket_id,
                        CloseTicket(ParkingTicketNew(ticket_id, vehicle1, SpotId(0), now), now))
                /\ UNCHANGED <<floors, floorsOrder, arcs, ticketCounter, spotCounter>>
           ELSE LET ticket == active_tickets[ticket_id]
                IN  /\ arcs' = VacateSpot(floors, floorsOrder, arcs, ticket.spot_id)
                    /\ active_tickets' = Insert(Remove(active_tickets, ticket_id), ticket_id,
                                                CloseTicket(ticket, now))
                    /\ ret' = Return("unpark_vehicle", ticket_id, TRUE, "",
                                     Charge(ticket.entry_time, now), <<>>)
                    /\ UNCHANGED <<floors, floorsOrder, ticketCounter, spotCounter>>
    /\ UNCHANGED <<threadVars, spot, floor1>>

UnparkVehicle(ticket_id, times) ==
    /\ \E now \in times :
        /\ clock' = now
        /\ IF ticket_id \notin DOMAIN active_tickets
           THEN /\ ret' = Return("unpark_vehicle", ticket_id, FALSE, ErrInvalidTicket, <<>>, <<>>)
                /\ UNCHANGED lotVars
           ELSE LET ticket == active_tickets[ticket_id]
                IN  /\ arcs' = VacateSpot(floors, floorsOrder, arcs, ticket.spot_id)
                    /\ active_tickets' = Insert(Remove(active_tickets, ticket_id), ticket_id,
                                                CloseTicket(ticket, now))
                    /\ ret' = Return("unpark_vehicle", ticket_id, TRUE, "",
                                     Charge(ticket.entry_time, now), <<>>)
                    /\ UNCHANGED <<floors, floorsOrder, ticketCounter, spotCounter>>
    /\ UNCHANGED <<threadVars, spot, floor1>>

\* The ticket ids a caller presents: every id that can have been minted, and one that never is.
TicketIds(cap) == {TicketId(n) : n \in 0..(cap - 1)} \cup {<<"nonexistent", 0>>}

(***************************************************************************)
(* Spec: one caller, any lot main's way of building produces.               *)
(***************************************************************************)
Init ==
    /\ InitLot(1..MaxFloors, {<<>>}, ExtraChoices)
    /\ InitThreads

Next ==
    \/ \E vehicle \in Vehicles : ParkVehicle(vehicle, MaxParks, Times)
    \/ \E ticket_id \in TicketIds(MaxParks) : UnparkVehicle(ticket_id, Times)

Spec == Init /\ [][Next]_vars

(***************************************************************************)
(* SpecBuilt: one caller, a lot some of whose default spots were replaced   *)
(* by spots created before its floors.                                      *)
(***************************************************************************)
InitBuilt ==
    /\ InitLot(1..MaxFloors, PreChoices \ {<<>>}, {<<>>})
    /\ InitThreads

NextBuilt ==
    \/ \E vehicle \in Vehicles : ParkVehicle(vehicle, MaxParks, {0})
    \/ \E ticket_id \in TicketIds(MaxParks) : UnparkVehicle(ticket_id, {0})

SpecBuilt == InitBuilt /\ [][NextBuilt]_vars

(***************************************************************************)
(* SpecFill: one caller parking a car again and again in a lot of two       *)
(* floors whose floor 1 has one free spot left (nine of its default spots   *)
(* were replaced by spots created not free), and releasing at most the      *)
(* ticket the last call returned.                                           *)
(***************************************************************************)
InitFill ==
    /\ InitLot({2}, {Copies(DefaultSpots - 1, SpotArgs(FALSE, "Regular"))}, {<<>>})
    /\ InitThreads

NextFill ==
    \/ ParkVehicle(vehicle1, MaxFill, {0})
    \/ /\ ret.op = "park_vehicle" /\ ret.ok
       /\ UnparkVehicle(ret.val.ticket_id, {0})

SpecFill == InitFill /\ [][NextFill]_vars

(***************************************************************************)
(* SpecRelease: one caller parking a car in a lot whose spots are all free  *)
(* and releasing tickets, released ones too.                                *)
(***************************************************************************)
InitRelease ==
    /\ InitLot(1..MaxFloors, {<<>>}, {<<>>})
    /\ InitThreads

NextRelease ==
    \/ ParkVehicle(vehicle1, MaxFill, {0})
    \/ \E ticket_id \in TicketIds(MaxFill) : UnparkVehicle(ticket_id, {0})

SpecRelease == InitRelease /\ [][NextRelease]_vars

(***************************************************************************)
(* Calls made by threads that share the lot: one action per critical        *)
(* section or lock acquisition.  A MutexGuard lives to the end of the scope *)
(* it is declared in: park_vehicle holds the floor table and the spot table *)
(* while it locks the ticket table, and unpark_vehicle holds the ticket     *)
(* table from its first line to its return.                                 *)
(***************************************************************************)
ParkPcs == {"park_scan", "park_lock_floors", "park_lock_spots", "park_assign",
            "park_lock_tickets", "park_insert"}

\* The instants at which a thread reads the clock, and the vehicles threads park.
ThreadTimes == {0}
ThreadVehicles == {vehicle1, vehicle2}

SpotLocksFree == \A x \in DOMAIN spotsLock : spotsLock[x] = 0

\* The locks a returning call drops.
Unlock(lock, t) == IF lock = t THEN 0 ELSE lock
UnlockSpots(t) == [x \in DOMAIN spotsLock |-> Unlock(spotsLock[x], t)]

CallPark(t, vehicle) ==
    /\ pc[t] = "idle"
    /\ ticketCounter + Cardinality({u \in Threads : pc[u] \in ParkPcs}) < MaxTickets
    /\ pc' = [pc EXCEPT ![t] = "park_scan"]
    /\ local' = [local EXCEPT ![t] = [vehicle |-> vehicle]]
    /\ UNCHANGED <<lotVars, clock, ret, floorsLock, ticketsLock, spotsLock, spot, floor1>>

\* Lines 133-138: the scan, under the floor-table lock (each spot table locked in turn).
ParkScan(t) ==
    /\ pc[t] = "park_scan"
    /\ floorsLock = 0
    /\ SpotLocksFree
    /\ \E available_spot \in ScanFloors(floors, floorsOrder, arcs, local[t].vehicle.vehicle_type) :
          /\ arcs' = Scanned(floors, arcs, local[t].vehicle.vehicle_type, available_spot)
          /\ IF available_spot = None
             THEN /\ pc' = [pc EXCEPT ![t] = "idle"]
                  /\ local' = [local EXCEPT ![t] = <<>>]
                  /\ ret' = Return("park_vehicle", local[t].vehicle, FALSE, ErrNoAvailableSpot, <<>>, <<>>)
             ELSE /\ pc' = [pc EXCEPT ![t] = "park_lock_floors"]
                  /\ local' = [local EXCEPT ![t] =
                                  [vehicle |-> local[t].vehicle,
                                   floor_number |-> available_spot[1][1],
                                   spot_id |-> available_spot[1][2]]]
                  /\ UNCHANGED ret
    /\ UNCHANGED <<floors, floorsOrder, active_tickets, ticketCounter, spotCounter, clock,
                   floorsLock, ticketsLock, spotsLock, spot, floor1>>

\* Line 143.
ParkLockFloors(t) ==
    /\ pc[t] = "park_lock_floors"
    /\ floorsLock = 0
    /\ floorsLock' = t
    /\ pc' = [pc EXCEPT ![t] = "park_lock_spots"]
    /\ UNCHANGED <<lotVars, clock, ret, local, ticketsLock, spotsLock, spot, floor1>>

\* Lines 144-145.
ParkLockSpots(t) ==
    /\ pc[t] = "park_lock_spots"
    /\ LET x == floors[local[t].floor_number].spots
       IN  /\ spotsLock[x] = 0
           /\ spotsLock' = [spotsLock EXCEPT ![x] = t]
    /\ pc' = [pc EXCEPT ![t] = "park_assign"]
    /\ UNCHANGED <<lotVars, clock, ret, local, floorsLock, ticketsLock, spot, floor1>>

\* park_vehicle drawing the ticket id before it tries to occupy the spot.
ParkAssignMintsFirst(t) ==
    /\ pc[t] = "park_assign"
    /\ LET x == floors[local[t].floor_number].spots
           r == AssignVehicle(arcs[x].map[local[t].spot_id], local[t].vehicle)
       IN  IF ~r.ok
           THEN /\ ret' = Return("park_vehicle", local[t].vehicle, FALSE, r.err, <<>>, <<>>)
                /\ pc' = [pc EXCEPT ![t] = "idle"]
                /\ local' = [local EXCEPT ![t] = <<>>]
                /\ floorsLock' = Unlock(floorsLock, t)
                /\ spotsLock' = UnlockSpots(t)
                /\ ticketCounter' = ticketCounter + 1
                /\ UNCHANGED <<floors, floorsOrder, arcs, active_tickets, spotCounter, clock>>
           ELSE \E now \in ThreadTimes :
                /\ clock' = now
                /\ arcs' = [arcs EXCEPT ![x].map[local[t].spot_id] = r.spot]
                /\ ticketCounter' = ticketCounter + 1
                /\ local' = [local EXCEPT ![t] =
                                [vehicle |-> local[t].vehicle,
                                 floor_number |-> local[t].floor_number,
                                 spot_id |-> local[t].spot_id,
                                 ticket |-> ParkingTicketNew(GenerateTicketId,
                                                local[t].vehicle, local[t].spot_id, now)]]
                /\ pc' = [pc EXCEPT ![t] = "park_lock_tickets"]
                /\ UNCHANGED <<floors, floorsOrder, active_tickets, spotCounter, ret,
                               floorsLock, spotsLock>>
    /\ UNCHANGED <<ticketsLock, spot, floor1>>

\* Lines 146-151: assign_vehicle, then the ticket id and the ticket.
ParkAssign(t) ==
    /\ pc[t] = "park_assign"
    /\ LET x == floors[local[t].floor_number].spots
           r == AssignVehicle(arcs[x].map[local[t].spot_id], local[t].vehicle)
       IN  IF ~r.ok
           THEN /\ ret' = Return("park_vehicle", local[t].vehicle, FALSE, r.err, <<>>, <<>>)
                /\ pc' = [pc EXCEPT ![t] = "idle"]
                /\ local' = [local EXCEPT ![t] = <<>>]
                /\ floorsLock' = Unlock(floorsLock, t)
                /\ spotsLock' = UnlockSpots(t)
                /\ UNCHANGED <<lotVars, clock>>
           ELSE \E now \in ThreadTimes :
                /\ clock' = now
                /\ arcs' = [arcs EXCEPT ![x].map[local[t].spot_id] = r.spot]
                /\ ticketCounter' = ticketCounter + 1
                /\ local' = [local EXCEPT ![t] =
                                [vehicle |-> local[t].vehicle,
                                 floor_number |-> local[t].floor_number,
                                 spot_id |-> local[t].spot_id,
                                 ticket |-> ParkingTicketNew(GenerateTicketId,
                                                local[t].vehicle, local[t].spot_id, now)]]
                /\ pc' = [pc EXCEPT ![t] = "park_lock_tickets"]
                /\ UNCHANGED <<floors, floorsOrder, active_tickets, spotCounter, ret,
                               floorsLock, spotsLock>>
    /\ UNCHANGED <<ticketsLock, spot, floor1>>

\* Line 154.
ParkLockTickets(t) ==
    /\ pc[t] = "park_lock_tickets"
    /\ ticketsLock = 0
    /\ ticketsLock' = t
    /\ pc' = [pc EXCEPT ![t] = "park_insert"]
    /\ UNCHANGED <<lotVars, clock, ret, local, floorsLock, spotsLock, spot, floor1>>

\* Lines 155-160: insert, return, and the three guards drop.
ParkInsert(t) ==
    /\ pc[t] = "park_insert"
    /\ active_tickets' = Insert(active_tickets, local[t].ticket.ticket_id, local[t].ticket)
    /\ ret' = Return("park_vehicle", local[t].vehicle, TRUE, "", local[t].ticket,
                    <<local[t].floor_number, local[t].spot_id>>)
    /\ pc' = [pc EXCEPT ![t] = "idle"]
    /\ local' = [local EXCEPT ![t] = <<>>]
    /\ ticketsLock' = Unlock(ticketsLock, t)
    /\ floorsLock' = Unlock(floorsLock, t)
    /\ spotsLock' = UnlockSpots(t)
    /\ UNCHANGED <<floors, floorsOrder, arcs, ticketCounter, spotCounter, clock, spot, floor1>>

CallUnpark(t, ticket_id) ==
    /\ pc[t] = "idle"
    /\ pc' = [pc EXCEPT ![t] = "unpark_lock_tickets"]
    /\ local' = [local EXCEPT ![t] = [ticket_id |-> ticket_id]]
    /\ UNCHANGED <<lotVars, clock, ret, floorsLock, ticketsLock, spotsLock, spot, floor1>>

\* Line 164.
UnparkLockTickets(t) ==
    /\ pc[t] = "unpark_lock_tickets"
    /\ ticketsLock = 0
    /\ ticketsLock' = t
    /\ pc' = [pc EXCEPT ![t] = "unpark_remove"]
    /\ UNCHANGED <<lotVars, clock, ret, local, floorsLock, spotsLock, spot, floor1>>

\* Lines 165-172: remove the ticket, read the clock, compute the charge.
UnparkRemove(t) ==
    /\ pc[t] = "unpark_remove"
    /\ IF local[t].ticket_id \notin DOMAIN active_tickets
       THEN /\ ret' = Return("unpark_vehicle", local[t].ticket_id, FALSE, ErrInvalidTicket, <<>>, <<>>)
            /\ pc' = [pc EXCEPT ![t] = "idle"]
            /\ local' = [local EXCEPT ![t] = <<>>]
            /\ ticketsLock' = Unlock(ticketsLock, t)
            /\ UNCHANGED <<active_tickets, clock>>
       ELSE \E now \in ThreadTimes :
            /\ clock' = now
            /\ active_tickets' = Remove(active_tickets, local[t].ticket_id)
            /\ local' = [local EXCEPT ![t] =
                            [ticket_id |-> local[t].ticket_id,
                             ticket |-> active_tickets[local[t].ticket_id],
                             now |-> now,
                             charge |-> Charge(active_tickets[local[t].ticket_id].entry_time, now)]]
            /\ pc' = [pc EXCEPT ![t] = "unpark_lock_floors"]
            /\ UNCHANGED <<ret, ticketsLock>>
    /\ UNCHANGED <<floors, floorsOrder, arcs, ticketCounter, spotCounter, floorsLock, spotsLock, spot, floor1>>

\* Line 175.
UnparkLockFloors(t) ==
    /\ pc[t] = "unpark_lock_floors"
    /\ floorsLock = 0
    /\ floorsLock' = t
    /\ pc' = [pc EXCEPT ![t] = "unpark_vacate"]
    /\ UNCHANGED <<lotVars, clock, ret, local, ticketsLock, spotsLock, spot, floor1>>

\* Lines 176-182: the loop over the floors, each spot table locked in turn.
UnparkVacate(t) ==
    /\ pc[t] = "unpark_vacate"
    /\ SpotLocksFree
    /\ arcs' = VacateSpot(floors, floorsOrder, arcs, local[t].ticket.spot_id)
    /\ pc' = [pc EXCEPT ![t] = "unpark_insert"]
    /\ UNCHANGED <<floors, floorsOrder, active_tickets, ticketCounter, spotCounter,
                   clock, ret, local, floorsLock, ticketsLock, spotsLock, spot, floor1>>

\* unpark_vehicle returning without re-inserting the ticket.
UnparkInsertDropsTicket(t) ==
    /\ pc[t] = "unpark_insert"
    /\ ret' = Return("unpark_vehicle", local[t].ticket_id, TRUE, "", local[t].charge, <<>>)
    /\ pc' = [pc EXCEPT ![t] = "idle"]
    /\ local' = [local EXCEPT ![t] = <<>>]
    /\ ticketsLock' = Unlock(ticketsLock, t)
    /\ floorsLock' = Unlock(floorsLock, t)
    /\ UNCHANGED <<lotVars, clock, spotsLock, spot, floor1>>

\* Lines 185-197: close the ticket, re-insert it, return; both guards drop.
UnparkInsert(t) ==
    /\ pc[t] = "unpark_insert"
    /\ active_tickets' = Insert(active_tickets, local[t].ticket_id,
                                CloseTicket(local[t].ticket, local[t].now))
    /\ ret' = Return("unpark_vehicle", local[t].ticket_id, TRUE, "", local[t].charge, <<>>)
    /\ pc' = [pc EXCEPT ![t] = "idle"]
    /\ local' = [local EXCEPT ![t] = <<>>]
    /\ ticketsLock' = Unlock(ticketsLock, t)
    /\ floorsLock' = Unlock(floorsLock, t)
    /\ UNCHANGED <<floors, floorsOrder, arcs, ticketCounter, spotCounter, clock, spotsLock, spot, floor1>>

(***************************************************************************)
(* SpecThreads: threads calling park_vehicle and unpark_vehicle on one lot  *)
(* of one floor that has one free spot (nine of its default spots were      *)
(* replaced by spots created not free).                                     *)
(***************************************************************************)
InitThreaded ==
    /\ InitLot({1}, {Copies(DefaultSpots - 1, SpotArgs(FALSE, "Regular"))}, {<<>>})
    /\ InitThreads

NextThreads ==
    \E t \in Threads :
        \/ \E vehicle \in ThreadVehicles : CallPark(t, vehicle)
        \/ ParkScan(t)
        \/ ParkLockFloors(t)
        \/ ParkLockSpots(t)
        \/ ParkAssign(t)
        \/ ParkLockTickets(t)
        \/ ParkInsert(t)
        \/ \E ticket_id \in TicketIds(MaxTickets) : CallUnpark(t, ticket_id)
        \/ UnparkLockTickets(t)
        \/ UnparkRemove(t)
        \/ UnparkLockFloors(t)
        \/ UnparkVacate(t)
        \/ UnparkInsert(t)

SpecThreads == InitThreaded /\ [][NextThreads]_vars

(***************************************************************************)
(* SpecRace: threads calling park_vehicle only, with vehicles that compete  *)
(* for the same spots of one floor.                                         *)
(***************************************************************************)
RaceVehicles == {vehicle1, vehicle3}

InitRace ==
    /\ InitLot({1}, {<<>>}, {<<>>})
    /\ InitThreads

NextRace ==
    \E t \in Threads :
        \/ \E vehicle \in RaceVehicles : CallPark(t, vehicle)
        \/ ParkScan(t)
        \/ ParkLockFloors(t)
        \/ ParkLockSpots(t)
        \/ ParkAssign(t)
        \/ ParkLockTickets(t)
        \/ ParkInsert(t)

SpecRace == InitRace /\ [][NextRace]_vars

(***************************************************************************)
(* SpecSpot: a caller that owns one ParkingSpot and calls its methods.      *)
(***************************************************************************)
SpotNew(is_free, spot_type) ==
    /\ spotCounter < MaxSpots
    /\ spot' = ParkingSpotNew(spotCounter, is_free, spot_type)
    /\ spotCounter' = spotCounter + 1
    /\ ret' = Return("new", <<is_free, spot_type>>, TRUE, "", <<>>, <<>>)
    /\ UNCHANGED <<floors, floorsOrder, arcs, active_tickets, ticketCounter, clock, threadVars, floor1>>

SpotAssignVehicle(vehicle) ==
    /\ LET r == AssignVehicle(spot, vehicle)
       IN  /\ spot' = r.spot
           /\ ret' = Return("assign_vehicle", vehicle, r.ok, r.err, <<>>, <<>>)
    /\ UNCHANGED <<lotVars, clock, threadVars, floor1>>

SpotRemoveVehicle ==
    /\ spot' = RemoveVehicle(spot)
    /\ ret' = Return("remove_vehicle", <<>>, TRUE, "", <<>>, <<>>)
    /\ UNCHANGED <<lotVars, clock, threadVars, floor1>>

InitSpot ==
    /\ \E is_free \in BOOLEAN, spot_type \in SpotType :
          spot = ParkingSpotNew(0, is_free, spot_type)
    /\ spotCounter = 1
    /\ floors = <<>>
    /\ floorsOrder = <<>>
    /\ arcs = <<>>
    /\ active_tickets = <<>>
    /\ ticketCounter = 0
    /\ clock = 0
    /\ ret = Return("none", <<>>, TRUE, "", <<>>, <<>>)
    /\ floor1 = None
    /\ InitThreads

NextSpot ==
    \/ \E is_free \in BOOLEAN, spot_type \in SpotType : SpotNew(is_free, spot_type)
    \/ \E vehicle \in Vehicles : SpotAssignVehicle(vehicle)
    \/ SpotRemoveVehicle

SpecSpot == InitSpot /\ [][NextSpot]_vars

(***************************************************************************)
(* SpecBilling: one caller parking and releasing cars on a lot of one       *)
(* floor that has one free spot, at instants around the hour marks read in  *)
(* any order.                                                               *)
(***************************************************************************)
BillTimes == {0, 59, 60, 119, 120}

InitBilling ==
    /\ InitLot({1}, {Copies(DefaultSpots - 1, SpotArgs(FALSE, "Regular"))}, {<<>>})
    /\ InitThreads

NextBilling ==
    \/ ParkVehicle(vehicle1, MaxParks, BillTimes)
    \/ \E ticket_id \in TicketIds(MaxParks) : UnparkVehicle(ticket_id, BillTimes)

SpecBilling == InitBilling /\ [][NextBilling]_vars

(***************************************************************************)
(* SpecSetup: one caller building a lot as main does (add_floor of a new    *)
(* floor, get_floor_by_id, add_spot on the handle), reading display_info    *)
(* and parking vehicles.                                                    *)
(***************************************************************************)
\* ParkingFloor::new's struct: the id and the address of the fresh Arc.
ParkingFloorNew(id, x) == [id |-> id, spots |-> x]

\* Where HashMap::insert puts a key in the iteration order: a key already present
\* keeps its place, a new one lands anywhere among the others.
OrdersAfterInsert(ord, k) ==
    IF \E i \in 1..Len(ord) : ord[i] = k THEN {ord}
    ELSE {SubSeq(ord, 1, i) \o <<k>> \o SubSeq(ord, i + 1, Len(ord)) : i \in 0..Len(ord)}

\* parking_lot.add_floor(ParkingFloor::new(id)).
AddFloor(id) ==
    /\ Len(arcs) < MaxFloors
    /\ arcs' = Append(arcs, [map |-> InitializeSpots(spotCounter), before |-> {}])
    /\ spotCounter' = spotCounter + DefaultSpots
    /\ floors' = Insert(floors, id, ParkingFloorNew(id, Len(arcs) + 1))
    /\ floorsOrder' \in OrdersAfterInsert(floorsOrder, id)
    /\ spotsLock' = Append(spotsLock, 0)
    /\ ret' = Return("add_floor", id, TRUE, "", <<>>, <<>>)
    /\ UNCHANGED <<active_tickets, ticketCounter, clock, pc, local, floorsLock, ticketsLock,
                   spot, floor1>>

\* get_floor_by_id handing out a floor whose spot table is a copy of the lot's.
GetFloorByIdDeepClone(id) ==
    /\ Len(arcs) < MaxFloors + MaxFloors
    /\ IF id \in DOMAIN floors
       THEN /\ arcs' = Append(arcs, arcs[floors[id].spots])
            /\ spotsLock' = Append(spotsLock, 0)
            /\ floor1' = Some(ParkingFloorNew(id, Len(arcs) + 1))
       ELSE /\ floor1' = None
            /\ UNCHANGED <<arcs, spotsLock>>
    /\ ret' = Return("get_floor_by_id", id, TRUE, "", floor1', <<>>)
    /\ UNCHANGED <<floors, floorsOrder, active_tickets, ticketCounter, spotCounter, clock,
                   pc, local, floorsLock, ticketsLock, spot>>

\* let floor1 = parking_lot.get_floor_by_id(id): the floor cloned, its Arc shared.
GetFloorById(id) ==
    /\ floor1' = IF id \in DOMAIN floors THEN Some(floors[id]) ELSE None
    /\ ret' = Return("get_floor_by_id", id, TRUE, "", floor1', <<>>)
    /\ UNCHANGED <<lotVars, clock, threadVars, spot>>

\* The spots added with add_spot so far.
AddedSpots == spotCounter - DefaultSpots * Len(arcs)

\* floor1.add_spot(ParkingSpot::new(is_free, spot_type)) on the unwrapped handle.
FloorAddSpot(is_free, spot_type) ==
    /\ floor1 # None
    /\ AddedSpots < MaxSpots
    /\ LET s == ParkingSpotNew(spotCounter, is_free, spot_type)
           x == floor1[1].spots
       IN  /\ arcs' = [arcs EXCEPT ![x].map = AddSpot(@, s)]
           /\ ret' = Return("add_spot", s, TRUE, "", <<>>, <<floor1[1].id, s.id>>)
    /\ spotCounter' = spotCounter + 1
    /\ UNCHANGED <<floors, floorsOrder, active_tickets, ticketCounter, clock, threadVars,
                   spot, floor1>>

\* display_info: the board it returns.
DisplayInfo ==
    /\ ret' = Return("display_info", <<>>, TRUE, "",
                     [num_floors |-> NumFloors,
                      num_empty_spots |-> NumEmptySpots(floors, arcs),
                      num_parked_vehicles |-> NumParkedVehicles(floors, arcs)], <<>>)
    /\ UNCHANGED <<lotVars, clock, threadVars, spot, floor1>>

\* ParkingLot::new: no floor, no ticket.
InitSetup ==
    /\ floors = <<>>
    /\ floorsOrder = <<>>
    /\ arcs = <<>>
    /\ active_tickets = <<>>
    /\ ticketCounter = 0
    /\ spotCounter = 0
    /\ clock = 0
    /\ ret = Return("none", <<>>, TRUE, "", <<>>, <<>>)
    /\ spot = <<>>
    /\ floor1 = None
    /\ InitThreads

FloorIds == 1..MaxFloors

NextSetup ==
    \/ \E id \in FloorIds : AddFloor(id)
    \/ GetFloorById(1)
    \/ \E is_free \in BOOLEAN : FloorAddSpot(is_free, "Large")
    \/ DisplayInfo
    \/ ParkVehicle(vehicle2, MaxTickets, {0})

SpecSetup == InitSetup /\ [][NextSetup]_vars

(***************************************************************************)
(* Properties.                                                              *)
(***************************************************************************)
Pending(id) == active_tickets[id].payment_status = "Pending"
Closed(ticket) == ticket.exit_time # None /\ ticket.payment_status = "Succeeded"

\* The places (floor id, key) of the lot's spots.
Places == {p \in (DOMAIN floors) \X (UNION {DOMAIN arcs[x].map : x \in DOMAIN arcs}) :
              p[2] \in DOMAIN arcs[floors[p[1]].spots].map}
SpotAt(a, place) == a[floors[place[1]].spots].map[place[2]]
\* The places holding a spot that is free and admits the vehicle.
Available(vehicle) ==
    {p \in Places : SpotAt(arcs, p).is_free /\ IsCompatible(SpotAt(arcs, p), vehicle.vehicle_type)}

\* C1: capacity invariant.  No two tickets that are both active (Pending: returned by
\* park_vehicle and not yet released) name the same spot identifier.
C1_ActiveTicketsNameDistinctSpots ==
    \A a, b \in DOMAIN active_tickets :
        (a # b /\ Pending(a) /\ Pending(b))
            => active_tickets[a].spot_id # active_tickets[b].spot_id

\* Thread t waits for a mutex that thread u holds.
WaitsFor(t, u) ==
    \/ pc[t] \in {"park_scan", "park_lock_floors", "unpark_lock_floors"} /\ floorsLock = u
    \/ pc[t] \in {"park_lock_tickets", "unpark_lock_tickets"} /\ ticketsLock = u
    \/ pc[t] = "park_lock_spots" /\ spotsLock[floors[local[t].floor_number].spots] = u

\* C2: no operation blocks indefinitely.  In no reachable state do two threads wait
\* for each other's locks (from such a state neither call ever returns).
C2_NoThreadsWaitForever ==
    ~ \E t, u \in Threads : t # u /\ WaitsFor(t, u) /\ WaitsFor(u, t)

\* C3: round trip.  When park_vehicle has returned ticket t and the next call is
\* unpark_vehicle(t.ticket_id), that call succeeds and the spot park_vehicle occupied
\* is free afterwards.
C3_RoundTrip ==
    [][(/\ ret.op = "park_vehicle" /\ ret.ok
        /\ ret'.op = "unpark_vehicle" /\ ret'.arg = ret.val.ticket_id)
          => (ret'.ok /\ SpotAt(arcs', ret.at).is_free)]_vars

\* C4: a ticket is mutated exactly once.  Once a ticket has an exit timestamp and
\* status Succeeded, no later call changes its exit timestamp or its status.
C4_ClosedTicketNeverChanges ==
    [][\A id \in DOMAIN active_tickets :
          Closed(active_tickets[id]) =>
              /\ id \in DOMAIN active_tickets'
              /\ active_tickets'[id].exit_time = active_tickets[id].exit_time
              /\ active_tickets'[id].payment_status = active_tickets[id].payment_status]_vars

\* C5: run alone, park_vehicle fails with "No available spots" exactly when no floor
\* holds a spot that is free and admits the vehicle; otherwise it succeeds, and its
\* ticket names a spot that was free and admissible before the call and holds the
\* vehicle after it.
C5_ParkFailsExactlyWhenNoSpot ==
    [][ret'.op = "park_vehicle" =>
          /\ (Available(ret'.arg) = {}) <=> (~ret'.ok /\ ret'.err = ErrNoAvailableSpot)
          /\ Available(ret'.arg) # {} =>
                /\ ret'.ok
                /\ \E p \in Available(ret'.arg) :
                      /\ ret'.val.spot_id = p[2]
                      /\ ~SpotAt(arcs', p).is_free
                      /\ SpotAt(arcs', p).vehicle = Some(ret'.arg)]_vars

\* C5 witness: a car is refused for want of a spot after an earlier car took the last one,
\* whose ticket names the spot that now holds it.
C5_Witness ==
    /\ ret.op = "park_vehicle" /\ ~ret.ok /\ ret.err = ErrNoAvailableSpot
    /\ ret.arg = vehicle1
    /\ \E id \in DOMAIN active_tickets, p \in Places :
          /\ Pending(id) /\ active_tickets[id].spot_id = p[2]
          /\ SpotAt(arcs, p).vehicle = Some(active_tickets[id].vehicle)

FreePlaces == {p \in Places : SpotAt(arcs, p).is_free}
\* The lot has free spots, and none of them admits the vehicle.
OnlyInadmissibleFree(vehicle) ==
    /\ FreePlaces # {}
    /\ \A p \in FreePlaces : ~IsCompatible(SpotAt(arcs, p), vehicle.vehicle_type)

\* C6 as stated: when every free spot of the lot is of a class inadmissible for the
\* vehicle, park_vehicle reports the incompatible-class error.
C6_ReportsIncompatibleClass ==
    [][(ret'.op = "park_vehicle" /\ OnlyInadmissibleFree(ret'.arg))
          => (~ret'.ok /\ ret'.err = ErrIncompatible)]_vars

\* C6 as amended: when every free spot of the lot is of a class inadmissible for the
\* vehicle, park_vehicle reports "No available spots" and changes nothing.
C6_ReportsNoAvailableSpot ==
    [][(ret'.op = "park_vehicle" /\ OnlyInadmissibleFree(ret'.arg))
          => (/\ ~ret'.ok /\ ret'.err = ErrNoAvailableSpot
              /\ UNCHANGED lotVars)]_vars

\* C6 witness: a bike was refused by a lot whose free spots are all Handicapped.
C6_Witness ==
    /\ ret.op = "park_vehicle" /\ ret.arg = vehicle3 /\ ~ret.ok
    /\ OnlyInadmissibleFree(vehicle3)
    /\ \A p \in FreePlaces : SpotAt(arcs, p).spot_type = "Handicapped"

\* C7: unpark_vehicle with a ticket id that is not in the ticket table fails with
\* "Invalid ticket ID" and changes no spot, no ticket and not the occupied count.
C7_InvalidTicketMutatesNothing ==
    [][(ret'.op = "unpark_vehicle" /\ ret'.arg \notin DOMAIN active_tickets)
          => (/\ ~ret'.ok /\ ret'.err = ErrInvalidTicket
              /\ UNCHANGED lotVars
              /\ NumParkedVehicles(floors', arcs') = NumParkedVehicles(floors, arcs))]_vars

\* C7 witness: an unknown ticket id was refused while a car stood parked.
C7_Witness ==
    /\ ret.op = "unpark_vehicle" /\ ~ret.ok /\ ret.err = ErrInvalidTicket
    /\ ret.arg \notin DOMAIN active_tickets
    /\ NumParkedVehicles(floors, arcs) > 0
    /\ \E id \in DOMAIN active_tickets : Pending(id)

\* Threads holding a ticket they minted and have not inserted yet, and threads
\* carrying a ticket they removed from the table and have not re-inserted yet.
InFlight == {t \in Threads : pc[t] \in {"park_lock_tickets", "park_insert"}}
Carrying == {t \in Threads : pc[t] \in {"unpark_lock_floors", "unpark_vacate", "unpark_insert"}}
\* Every ticket id in existence, wherever its ticket is.
MintedIds ==
    DOMAIN active_tickets \cup {local[t].ticket.ticket_id : t \in InFlight}
                          \cup {local[t].ticket.ticket_id : t \in Carrying}

\* C8: ticket identifiers are never duplicated or reused, also with concurrent calls
\* and after releases: a freshly minted ticket's id differs from every other ticket's,
\* and its counter value is larger than that of every ticket minted before.
C8_TicketIdsFresh ==
    /\ [](\A t \in InFlight :
            /\ local[t].ticket.ticket_id \notin DOMAIN active_tickets
            /\ \A u \in (InFlight \cup Carrying) \ {t} :
                  local[u].ticket.ticket_id # local[t].ticket.ticket_id)
    /\ [][\A t \in Threads :
            (pc[t] = "park_assign" /\ pc'[t] = "park_lock_tickets")
                => \A id \in MintedIds : id[2] < local'[t].ticket.ticket_id[2]]_vars

\* C8 witness: a ticket was minted while an earlier ticket, already released, is on record.
C8_Witness ==
    \E t \in InFlight, id \in DOMAIN active_tickets :
        /\ Closed(active_tickets[id])
        /\ id[2] < local[t].ticket.ticket_id[2]

\* The ids park_vehicle has inserted: all that were minted but those still in flight.
Inserted == {TicketId(n) : n \in 0..(ticketCounter - 1)} \ {local[t].ticket.ticket_id : t \in InFlight}

\* C9: a ticket is never deleted.  Whenever the ticket table can be observed (its lock
\* is free) it holds every ticket park_vehicle inserted; after a successful
\* unpark_vehicle(t) the entry has an exit timestamp and status Succeeded, and keeps them.
C9_TicketNeverDeleted ==
    /\ [](ticketsLock = 0 =>
            /\ \A id \in Inserted : id \in DOMAIN active_tickets
            /\ (ret.op = "unpark_vehicle" /\ ret.ok) => Closed(active_tickets[ret.arg]))
    /\ [][\A id \in DOMAIN active_tickets \cap DOMAIN active_tickets' :
            Closed(active_tickets[id]) => Closed(active_tickets'[id])]_vars

\* C9 witness: a released ticket is on record while another thread has just had its
\* own ticket inserted.
C9_Witness ==
    /\ ticketsLock = 0
    /\ ret.op = "unpark_vehicle" /\ ret.ok
    /\ Closed(active_tickets[ret.arg])
    /\ \E id \in DOMAIN active_tickets : Pending(id)

\* C10 as stated: assign_vehicle succeeds only for a pair the table admits, and for a
\* pair it does not admit the call yields the incompatible-class error and leaves the
\* spot free, whatever state the spot is in.
C10_IncompatibleAlwaysReported ==
    [][ret'.op = "assign_vehicle" =>
          /\ ret'.ok => IsCompatible(spot, ret'.arg.vehicle_type)
          /\ ~IsCompatible(spot, ret'.arg.vehicle_type) =>
                (~ret'.ok /\ ret'.err = ErrIncompatible /\ spot'.is_free)]_vars

\* C10 as amended: assign_vehicle succeeds only on a free spot and for a pair the
\* table admits; on a free spot a pair it does not admit yields the incompatible-class
\* error and leaves the spot free; on a spot that is not free every pair yields the
\* already-occupied error and leaves the spot as it was.
C10_IncompatibleReportedOnFreeSpot ==
    [][ret'.op = "assign_vehicle" =>
          /\ ret'.ok => (spot.is_free /\ IsCompatible(spot, ret'.arg.vehicle_type))
          /\ (spot.is_free /\ ~IsCompatible(spot, ret'.arg.vehicle_type)) =>
                (~ret'.ok /\ ret'.err = ErrIncompatible /\ spot' = spot)
          /\ ~spot.is_free =>
                (~ret'.ok /\ ret'.err = ErrAlreadyOccupied /\ spot' = spot)]_vars

\* C10 witness: a free spot refused a vehicle of a class it does not admit, and is still free.
C10_Witness ==
    /\ ret.op = "assign_vehicle" /\ ~ret.ok /\ ret.err = ErrIncompatible
    /\ spot.is_free /\ spot.vehicle = None
    /\ ~IsCompatible(spot, ret.arg.vehicle_type)

\* The whole hours in a stay of d minutes: the h with h hours <= d < h + 1 hours.
\* The whole hours in a duration of d minutes, the fraction cut off (for a negative d:
\* minus the whole hours in -d).
WholeHours(d) ==
    LET a == IF d < 0 THEN -d ELSE d
        h == CHOOSE h \in 0..a : h * MinutesPerHour <= a /\ a < (h + 1) * MinutesPerHour
    IN  IF d < 0 THEN -h ELSE h

\* C11: billing truncates to whole hours.  The charge a successful unpark_vehicle
\* returns has total = (whole hours between the ticket's entry time and the release
\* time) * 10 and chargeback 0; a stay of 59 minutes bills 0, of 60 minutes 10, of
\* 119 minutes 10.
C11_BillsWholeHours ==
    [][(ret'.op = "unpark_vehicle" /\ ret'.ok) =>
          LET stay == clock' - active_tickets[ret'.arg].entry_time
          IN  /\ ret'.val.total = WholeHours(stay) * 10
              /\ ret'.val.chargeback = 0
              /\ stay = 59 => ret'.val.total = 0
              /\ stay = 60 => ret'.val.total = 10
              /\ stay = 119 => ret'.val.total = 10]_vars

\* C11 witness: a car that entered at minute 0 was released at minute 119 and billed 10.
C11_Witness ==
    /\ ret.op = "unpark_vehicle" /\ ret.ok
    /\ active_tickets[ret.arg].entry_time = 0
    /\ active_tickets[ret.arg].exit_time = Some(119)
    /\ ret.val = [total |-> 10, chargeback |-> 0]

\* C12: after any sequence of add_floor calls, display_info().num_floors is the
\* number of distinct floor ids added: an add_floor of a new id raises the count by
\* one, an add_floor of an id already present replaces that floor (the table then
\* holds the new floor under the id) and leaves the count as it was.
C12_NumFloorsCountsDistinctIds ==
    /\ [](ret.op = "display_info" =>
            ret.val.num_floors = Cardinality({floors[f].id : f \in DOMAIN floors}))
    /\ [][ret'.op = "add_floor" =>
            /\ DOMAIN floors' = DOMAIN floors \cup {ret'.arg}
            /\ floors'[ret'.arg].id = ret'.arg
            /\ floors'[ret'.arg].spots \notin DOMAIN arcs
            /\ NumFloors' = IF ret'.arg \in DOMAIN floors THEN NumFloors ELSE NumFloors + 1]_vars

\* C12 witness: two floors were added under one id, and display_info reports one.
C12_Witness ==
    /\ ret.op = "display_info" /\ ret.val.num_floors = 1
    /\ Len(arcs) = 2
    /\ \E x \in DOMAIN arcs : \A f \in DOMAIN floors : floors[f].spots # x

\* C13: idempotent vacate.  remove_vehicle on a spot in any state (free, occupied, or
\* created not free) returns without error and leaves the spot free with no occupant,
\* its id and class as they were; a remove_vehicle directly after a remove_vehicle
\* leaves the spot exactly as it was.
C13_VacateIdempotent ==
    [][ret'.op = "remove_vehicle" =>
          /\ ret'.ok
          /\ spot' = [id |-> spot.id, spot_type |-> spot.spot_type,
                      is_free |-> TRUE, vehicle |-> None]
          /\ ret.op = "remove_vehicle" => spot' = spot]_vars

\* C13 witness: remove_vehicle returned on the second spot the caller created, which is
\* free now, with no occupant.
C13_Witness ==
    /\ ret.op = "remove_vehicle" /\ ret.ok
    /\ spot.id = SpotId(1)
    /\ spot.is_free /\ spot.vehicle = None

\* The tickets, on record or still in the hands of the call that minted them, that
\* name the spot under key k.
TicketsNaming(k) ==
    {<<"on record", id>> : id \in {i \in DOMAIN active_tickets : active_tickets[i].spot_id = k}}
        \cup {<<"in flight", t>> : t \in {u \in InFlight : local[u].ticket.spot_id = k}}

\* C14: of the concurrent park_vehicle calls that picked the same free spot in their
\* scans at most one occupies it and gets a ticket: no spot is named by two tickets, and
\* a call that finds its spot occupied when it comes to occupy it fails with "Spot is
\* already occupied", mints no ticket, and leaves the spot with the winner's vehicle; a
\* call that finds it free puts its own vehicle there.
C14_OneWinnerPerSpot ==
    /\ [](\A p \in Places : Cardinality(TicketsNaming(p[2])) <= 1)
    /\ [][\A t \in Threads :
            (pc[t] = "park_assign" /\ pc'[t] # "park_assign") =>
                LET p == <<local[t].floor_number, local[t].spot_id>>
                IN  IF SpotAt(arcs, p).is_free
                    THEN /\ pc'[t] = "park_lock_tickets"
                         /\ ~SpotAt(arcs', p).is_free
                         /\ SpotAt(arcs', p).vehicle = Some(local[t].vehicle)
                    ELSE /\ pc'[t] = "idle"
                         /\ ret' = Return("park_vehicle", local[t].vehicle, FALSE,
                                          "Spot is already occupied", <<>>, <<>>)
                         /\ ticketCounter' = ticketCounter
                         /\ active_tickets' = active_tickets
                         /\ arcs' = arcs]_vars

\* C14 witness: a call was refused with "Spot is already occupied" while the only ticket
\* minted so far names a spot that holds the other call's vehicle.
C14_Witness ==
    /\ ret.op = "park_vehicle" /\ ~ret.ok /\ ret.err = ErrAlreadyOccupied
    /\ ticketCounter = 1
    /\ \E p \in Places :
          /\ Cardinality(TicketsNaming(p[2])) = 1
          /\ ~SpotAt(arcs, p).is_free
          /\ SpotAt(arcs, p).vehicle # Some(ret.arg)

\* The locks thread t holds other than the floor-table lock.
HoldsTickets(t) == ticketsLock = t
HoldsSpots(t) == \E x \in DOMAIN spotsLock : spotsLock[x] = t

\* C15: lock ordering.  A thread that holds more than one of the three locks took the
\* floor-table lock first: no thread acquires the floor-table lock while it holds the
\* ticket-table lock or a spot-table lock, and none acquires one of those two while it
\* holds the other without holding the floor-table lock.
C15_FloorTableLockFirst ==
    [][\A t \in Threads :
          /\ (floorsLock # t /\ floorsLock' = t) => (~HoldsTickets(t) /\ ~HoldsSpots(t))
          /\ (~HoldsTickets(t) /\ ticketsLock' = t /\ HoldsSpots(t)) => floorsLock = t
          /\ (~HoldsSpots(t) /\ spotsLock # spotsLock' /\ \E x \in DOMAIN spotsLock : spotsLock'[x] = t /\ HoldsTickets(t))
                => floorsLock = t]_vars

\* C16: spot identifiers are unique within the lot.  In a lot built with
\* ParkingFloor::new, add_floor and add_spot no two spots are keyed under the same
\* identifier, so that the spot identifier a ticket stores denotes exactly one spot.
C16_SpotKeysUniqueInLot ==
    /\ \A p, q \in Places : p # q => p[2] # q[2]
    /\ \A id \in DOMAIN active_tickets :
          Cardinality({p \in Places : p[2] = active_tickets[id].spot_id}) = 1

\* C17: spot invariant.  A spot created by ParkingSpot::new, with either value of
\* is_free, and changed only by assign_vehicle and remove_vehicle has an occupant if
\* and only if it is not free.
C17_OccupantIffNotFree ==
    (spot.vehicle # None) <=> ~spot.is_free

\* The steps of park_vehicle before it has occupied a spot, and its two error returns.
BeforeOccupying(t) ==
    \/ pc[t] \in {"park_scan", "park_lock_floors", "park_lock_spots"} /\ pc'[t] # pc[t]
    \/ pc[t] = "park_assign" /\ pc'[t] = "idle"

\* C18: a park_vehicle that returns an error changes no shared state.  It returns an
\* error only from its scan ("No available spots") or from assign_vehicle, and no step
\* it takes up to there changes a spot's flag or occupant, the ticket table or the
\* ticket-id counter.
C18_FailedParkChangesNothing ==
    [][\A t \in Threads :
          /\ BeforeOccupying(t) =>
                /\ \A x \in DOMAIN arcs : arcs'[x].map = arcs[x].map
                /\ active_tickets' = active_tickets
                /\ ticketCounter' = ticketCounter
          /\ (pc[t] \in ParkPcs /\ pc'[t] = "idle" /\ ~ret'.ok) =>
                /\ BeforeOccupying(t)
                /\ ret'.op = "park_vehicle" /\ ret'.arg = local[t].vehicle
                /\ ret'.err \in {"No available spots", "Spot is already occupied",
                                 "Vehicle type not compatible with spot type"}]_vars

\* C18 witness: a park_vehicle was refused by assign_vehicle, its spot taken since
\* its scan; one ticket was minted before, and it is the only one on record.
C18_Witness ==
    /\ ret.op = "park_vehicle" /\ ~ret.ok /\ ret.err = ErrAlreadyOccupied
    /\ \A t \in Threads : pc[t] = "idle"
    /\ ticketCounter = 1
    /\ DOMAIN active_tickets = {TicketId(0)}
    /\ Pending(TicketId(0))
    /\ Eligible(arcs[1], ret.arg.vehicle_type) = {}

\* C19: ticket/spot consistency.  After any sequence of completed park_vehicle and
\* unpark_vehicle calls on a lot whose spots all started free, the number of occupied
\* spots (display_info's num_parked_vehicles) is the number of tickets on record with
\* status Pending.
C19_ParkedEqualsPendingTickets ==
    NumParkedVehicles(floors, arcs) = Cardinality({id \in DOMAIN active_tickets : Pending(id)})

\* The lot's floor under the handle's id is a later allocation than the handle's spot
\* table: add_floor has replaced the floor since get_floor_by_id returned the handle.
ReplacedSince(floor) == floor.id \in DOMAIN floors /\ floors[floor.id].spots > floor.spots

\* What the lot shows of a spot just added under its id to the floor of that id:
\* the floor holds it, and display_info counts it.
InLotAfterAddSpot(s, id) ==
    /\ <<id, s.id>> \in Places'
    /\ arcs'[floors'[id].spots].map[s.id] = s
    /\ NumEmptySpots(floors', arcs') = NumEmptySpots(floors, arcs) + 1
    /\ NumParkedVehicles(floors', arcs') =
          NumParkedVehicles(floors, arcs) + (IF s.is_free THEN 0 ELSE 1)

\* The places of spots that were added with add_spot (the default spots have the keys
\* spot_0 .. spot_9).
AddedPlaces == {p \in Places : p[2][2] >= DefaultSpots}

\* C20 as stated: a spot added with add_spot to the handle get_floor_by_id returned
\* becomes part of the lot's floor, and display_info counts it.
C20_AddedSpotJoinsLot ==
    [][ret'.op = "add_spot" => InLotAfterAddSpot(ret'.arg, floor1[1].id)]_vars

\* C20 as amended: unless add_floor has replaced the floor since the handle was
\* obtained, a spot added with add_spot to the handle get_floor_by_id returned becomes
\* part of the lot's floor and display_info counts it; and park_vehicle of a Truck, in
\* a lot whose floors were created with Regular spots only, succeeds exactly when
\* the lot holds a free Large spot added this way, and occupies such a spot.
C20_AddedSpotJoinsLotUnlessReplaced ==
    /\ [][(ret'.op = "add_spot" /\ ~ReplacedSince(floor1[1]))
            => InLotAfterAddSpot(ret'.arg, floor1[1].id)]_vars
    /\ [][(ret'.op = "park_vehicle" /\ ret'.arg.vehicle_type = "Truck") =>
            /\ ret'.ok <=> \E p \in AddedPlaces :
                              SpotAt(arcs, p).is_free /\ SpotAt(arcs, p).spot_type = "Large"
            /\ ret'.ok =>
                  /\ ret'.at \in AddedPlaces
                  /\ SpotAt(arcs, ret'.at).is_free
                  /\ SpotAt(arcs', ret'.at).vehicle = Some(ret'.arg)]_vars

\* C20 witness: a Truck stands on a Large spot that was added through the handle of
\* floor 1, in a lot of two floors.
C20_Witness ==
    /\ ret.op = "park_vehicle" /\ ret.ok /\ ret.arg = vehicle2
    /\ floor1 # None /\ ~ReplacedSince(floor1[1])
    /\ ret.at \in AddedPlaces
    /\ SpotAt(arcs, ret.at).spot_type = "Large"
    /\ SpotAt(arcs, ret.at).vehicle = Some(vehicle2)
    /\ NumFloors = 2

====
